---- MODULE Spec2Model ----
(***************************************************************************)
(* Generation orchestrator of CrossPlatformAppBuilder.                     *)
(*                                                                         *)
(* The repository holds two CrossPlatformGenerator classes:                *)
(*   "v2"  src/src/lib/platforms/cross-platform-generator.ts               *)
(*         (local scaffolds for ios/android/react-native, WebGenerator     *)
(*         for web, default model on parse failure, stub template)         *)
(*   "v1"  src/unnamed/part_001, lines 213-661                             *)
(*         (one backend call per emitter, strict JSON.parse, template      *)
(*         lookup through loadTemplates)                                   *)
(* and the WebGenerator of src/unnamed/part_002.  One generate call is     *)
(* modelled as a sequential process whose steps are the awaits of the      *)
(* code; the backend's answers are the nondeterministic inputs.            *)
(***************************************************************************)
EXTENDS Integers, Sequences, FiniteSets, TLC

VARIABLES variant, provider, pc, request, app, usedDefault, code,
          tokensPerPlatform, emitted, calls, web, error, failedAt, result,
          builds, review, adapter, chat, domains, hooks, cli, analytics

vars == <<variant, provider, pc, request, app, usedDefault, code,
          tokensPerPlatform, emitted, calls, web, error, failedAt, result,
          builds, review, adapter, chat, domains, hooks, cli, analytics>>

(***************************************************************************)
(* Bounds of the explored inputs.                                          *)
(***************************************************************************)
\* longest platform list of a request
MaxPlatforms == 3

\* the prompt a caller sends
Prompts == {"todo app"}

\* one identifier outside the Platform type
UnknownTarget == "tvos"

\* template ids of requests: absent (''), one catalog id, one unknown id
RequestTemplates == {"", "todo-app", "unknown-id"}

\* webStack settings of requests: absent ('', which selects the known stack
\* nextjs), a name that Object.prototype defines, a name nothing defines
RequestStacks == {"", "constructor", "angular"}

(***************************************************************************)
(* Types of src/unnamed/part_000.                                          *)
(***************************************************************************)
Platform == {"ios", "android", "react-native", "web"}

AIProvider == {"claude", "openai", "gemini", "minimax", "zhipu"}

NavigationTypes == {"stack", "tab", "split", "drawer"}

\* required keys of interface ColorPalette
ColorPalette == {"primary", "secondary", "accent", "background", "surface", "text"}

Range(s) == {s[i] : i \in DOMAIN s}

\* duplicate-free lists of length at most n over the set S
RECURSIVE ListsUpTo(_, _)
ListsUpTo(S, n) ==
  IF n = 0 THEN {<<>>}
  ELSE LET shorter == ListsUpTo(S, n - 1)
       IN  shorter \cup
           UNION {{Append(l, x) : x \in S \ Range(l)} : l \in shorter}

\* request.platforms: PlatformOutput, possibly with an unrecognised id
PlatformLists == ListsUpTo(Platform \cup {UnknownTarget}, MaxPlatforms)

GenerationRequest ==
  [prompt : Prompts, platforms : PlatformLists,
   template : RequestTemplates, webStack : RequestStacks]

NoRequest == [prompt |-> "", platforms |-> <<>>, template |-> "", webStack |-> ""]

(***************************************************************************)
(* Application models.  A parsed reply is a JavaScript value: null, or an  *)
(* object of which `has` lists the properties that are present.            *)
(***************************************************************************)
NoColors == [k \in {} |-> ""]

NullValue ==
  [t |-> "null", has |-> {}, id |-> "", name |-> "", description |-> "",
   platforms |-> <<>>, screens |-> <<>>, navigation |-> "", colors |-> NoColors]

EmptyObject == [NullValue EXCEPT !.t = "object"]

AppFields == {"id", "name", "description", "platforms", "screens",
              "navigation", "theme"}

\* the four colours both generators write into a model they build themselves
DefaultColors ==
  [primary |-> "#007AFF", secondary |-> "#5856D6",
   background |-> "#FFFFFF", text |-> "#000000"]

\* the model a well-behaved backend describes
BackendApp ==
  [t |-> "object", has |-> AppFields, id |-> "todo-1", name |-> "Todo List",
   description |-> "A todo application",
   platforms |-> <<"ios", "android", "react-native">>,
   screens |-> <<"Home", "AddTask">>, navigation |-> "tab",
   colors |-> [primary |-> "#007AFF", secondary |-> "#5856D6",
               accent |-> "#FF9500", background |-> "#FFFFFF",
               surface |-> "#F2F2F7", text |-> "#000000"]]

(***************************************************************************)
(* Texts a backend may answer the model-build call with, and JSON.parse.   *)
(***************************************************************************)
AppJsonText == "{app definition}"

ProseText == "Sure! Here is your app."

BuildReplies == {AppJsonText, ProseText, "", "null", "{}"}

\* JSON.parse: [ok, value]; ok = FALSE stands for the SyntaxError it throws
JSONParse(text) ==
  CASE text = AppJsonText -> [ok |-> TRUE, value |-> BackendApp]
    [] text = "null"      -> [ok |-> TRUE, value |-> NullValue]
    [] text = "{}"        -> [ok |-> TRUE, value |-> EmptyObject]
    [] OTHER              -> [ok |-> FALSE, value |-> NullValue]

(***************************************************************************)
(* Backend adapters.  A call either gets no response at all (fetch         *)
(* rejects: a transport failure) or returns an AIResponse.                 *)
(***************************************************************************)
Endpoints == {"claude", "openai", "gemini", "minimax", "zhipu"}

\* provider switch of the v2 generator: unknown ids fall back to MiniMax
callAI_v2(p) ==
  CASE p = "claude"  -> "claude"
    [] p = "openai"  -> "openai"
    [] p = "gemini"  -> "gemini"
    [] p = "minimax" -> "minimax"
    [] p = "zhipu"   -> "zhipu"
    [] OTHER         -> "minimax"

\* provider switch of the v1 generator: unknown ids throw
callAI_v1(p) ==
  CASE p = "claude"  -> "claude"
    [] p = "openai"  -> "openai"
    [] p = "gemini"  -> "gemini"
    [] p = "minimax" -> "minimax"
    [] p = "zhipu"   -> "zhipu"
    [] OTHER         -> "throw"

callAI(v, p) == IF v = "v2" THEN callAI_v2(p) ELSE callAI_v1(p)

\* provider switch of WebGenerator: no case for zhipu
WebGenerator_callAI(p) ==
  CASE p = "minimax" -> "minimax"
    [] p = "openai"  -> "openai"
    [] p = "claude"  -> "claude"
    [] p = "gemini"  -> "gemini"
    [] OTHER         -> "minimax"

\* answers to the model-build call
BuildAnswers ==
  {[content |-> c, totalTokens |-> IF c = "" THEN 0 ELSE 5] : c \in BuildReplies}

\* answers to an emitter call of the v1 generator
EmitterAnswers ==
  {[content |-> "generated source", totalTokens |-> 7],
   [content |-> "", totalTokens |-> 0]}

\* one entry of the log of backend calls
Call(to, by, prompt, outcome, answer) ==
  [to |-> to, by |-> by, prompt |-> prompt, outcome |-> outcome,
   content |-> answer.content, totalTokens |-> answer.totalTokens]

NoAnswer == [content |-> "", totalTokens |-> 0]

\* the AIResponse an adapter makes of the provider's answer: only callClaude
\* and callOpenAI of the v1 generator return a usage field; every other
\* adapter returns none, which its caller reads as usage?.totalTokens || 0
AIResponse(v, endpoint, answer) ==
  [content |-> answer.content,
   totalTokens |-> IF v = "v1" /\ endpoint \in {"claude", "openai"}
                   THEN answer.totalTokens
                   ELSE 0]

\* a build that asks the backend a second time
BuildCallsWithRetry(call) == <<call, call>>

\* the backend calls of one generateAppDefinition: the single
\* await this.callAI(prompt, systemPrompt)
BuildCalls(call) == <<call>>

(***************************************************************************)
(* Template catalog (src/src/lib/templates/app-templates.ts).              *)
(***************************************************************************)
CROSS_PLATFORM_TEMPLATES ==
  << [id |-> "todo-app", name |-> "Todo List",
      features |-> <<"add-task", "delete-task", "mark-complete",
                     "categories", "local-storage", "reminders">>],
     [id |-> "note-app", name |-> "Notes",
      features |-> <<"create-note", "rich-text", "categories",
                     "search", "backup">>] >>

NoTemplate == [id |-> "", name |-> "", features |-> <<>>]

\* Array.prototype.find on a template list: the first match, or none
Find(templates, id) ==
  IF \E i \in DOMAIN templates : templates[i].id = id
  THEN [found |-> TRUE,
        template |-> templates[CHOOSE i \in DOMAIN templates :
                                 /\ templates[i].id = id
                                 /\ \A j \in 1..(i - 1) : templates[j].id # id]]
  ELSE [found |-> FALSE, template |-> NoTemplate]

getTemplateById(id) == Find(CROSS_PLATFORM_TEMPLATES, id)

\* the v1 generator's loader: a stub that returns no template
loadTemplates == << >>

(***************************************************************************)
(* Prompts of backend calls.                                               *)
(***************************************************************************)
UserPrompt(text) == [kind |-> "user", text |-> text]

\* `Create a ${template.name} app with: ${template.features.join(', ')}`
TemplatePrompt(template) ==
  [kind |-> "template", name |-> template.name, features |-> template.features]

\* emitter prompt of v1: the instructions of target around JSON.stringify(app)
EmitPrompt(target, model) == [kind |-> "emit", target |-> target, app |-> model]

\* phase-1 prompt of WebGenerator: the user prompt, stack table in the system text
SpecPrompt(text, stack) == [kind |-> "web-spec", text |-> text, stack |-> stack]

(***************************************************************************)
(* Application Model Builder.                                              *)
(***************************************************************************)
\* the model v2 substitutes when JSON.parse throws
DefaultApp(prompt) ==
  [t |-> "object", has |-> AppFields, id |-> "app-<now>",
   name |-> "Generated App", description |-> prompt,
   platforms |-> <<"ios", "android">>, screens |-> <<>>,
   navigation |-> "stack", colors |-> DefaultColors]

\* v2: the template id is not looked up
generateFromTemplate_v2(templateId) ==
  [t |-> "object", has |-> AppFields, id |-> templateId,
   name |-> "Template App", description |-> "Generated from template",
   platforms |-> <<"ios", "android">>, screens |-> <<>>,
   navigation |-> "stack", colors |-> DefaultColors]

\* v1: look the id up in loadTemplates(); [found, prompt]
generateFromTemplate_v1(templateId) ==
  LET hit == Find(loadTemplates, templateId)
  IN  [found |-> hit.found, prompt |-> TemplatePrompt(hit.template)]

\* what generateAppDefinition makes of the backend's text:
\* [threw, app, usedDefault]
ParseAppDefinition(v, prompt, content) ==
  LET parsed == JSONParse(content)
  IN  IF parsed.ok
      THEN [threw |-> FALSE, app |-> parsed.value, usedDefault |-> FALSE]
      ELSE IF v = "v2"
           THEN [threw |-> FALSE, app |-> DefaultApp(prompt), usedDefault |-> TRUE]
           ELSE [threw |-> TRUE, app |-> NullValue, usedDefault |-> FALSE]

(***************************************************************************)
(* Per-target emitters.                                                    *)
(***************************************************************************)
\* a slip that replaces an unrecognised target by a default one
IncludesOrDefault(list, x) ==
  \/ \E i \in DOMAIN list : list[i] = x
  \/ x = "ios" /\ \E i \in DOMAIN list : list[i] \notin Platform

\* a test that looks at the head of the list only
IncludesAtHead(list, x) == list # << >> /\ list[1] = x

\* Array.prototype.includes
Includes(list, x) == \E i \in DOMAIN list : list[i] = x

\* a slip in the key: the react-native text is stored under web
AssignUnderWrongKey(codeMap, key, content) ==
  LET to == IF key = "react-native" THEN "web" ELSE key
  IN  [k \in DOMAIN codeMap \cup {to} |-> IF k = to THEN content ELSE codeMap[k]]

\* code[key] = content
Assign(codeMap, key, content) ==
  [k \in DOMAIN codeMap \cup {key} |-> IF k = key THEN content ELSE codeMap[k]]

EmptyMap == [k \in {} |-> 0]

NoContent == [kind |-> "none"]

\* v2, ios: a local scaffold; app.name.replace throws a TypeError when the
\* model is null or has no name
generateIOSCode_v2(model) ==
  IF model.t = "null" \/ "name" \notin model.has
  THEN [threw |-> TRUE, content |-> NoContent]
  ELSE [threw |-> FALSE, content |-> [kind |-> "swiftui", name |-> model.name]]

\* v2, android: app.name.toLowerCase throws likewise
generateAndroidCode_v2(model) ==
  IF model.t = "null" \/ "name" \notin model.has
  THEN [threw |-> TRUE, content |-> NoContent]
  ELSE [threw |-> FALSE, content |-> [kind |-> "compose", name |-> model.name]]

\* v2, react-native: only interpolates app.name; throws on null only
generateReactNativeCode_v2(model) ==
  IF model.t = "null"
  THEN [threw |-> TRUE, content |-> NoContent]
  ELSE [threw |-> FALSE,
        content |-> [kind |-> "expo",
                     name |-> IF "name" \in model.has THEN model.name
                              ELSE "undefined"]]

LocalEmitter(target, model) ==
  CASE target = "ios"          -> generateIOSCode_v2(model)
    [] target = "android"      -> generateAndroidCode_v2(model)
    [] target = "react-native" -> generateReactNativeCode_v2(model)

\* v1: code[target] = response.content
AIText(content) == [kind |-> "ai-text", text |-> content]

\* v1: the prompt an emitter sends; generateWebCode reuses the react-native one
EmitterPrompt_v1(target, model) ==
  IF target = "web" THEN EmitPrompt("react-native", model)
  ELSE EmitPrompt(target, model)

\* a slip that swallows the rejection and goes on with an empty answer
FetchIgnoringRejection(outcome, answer) ==
  [threw |-> FALSE, answer |-> answer]

\* outcome of awaiting fetch: a rejected fetch throws out of the caller
Fetch(outcome, answer) ==
  [threw |-> outcome = "rejected", answer |-> answer]

(***************************************************************************)
(* WebGenerator (src/unnamed/part_002).                                    *)
(***************************************************************************)
WEB_STACKS == {"nextjs", "fastapi", "react-express", "vue"}

\* property names every object literal inherits from Object.prototype
ObjectPrototypeKeys ==
  {"constructor", "toString", "valueOf", "hasOwnProperty", "__proto__"}

\* WEB_STACKS[stack]: an entry, an inherited property, or undefined
StackEntry(stack) ==
  IF stack \in WEB_STACKS THEN "entry"
  ELSE IF stack \in ObjectPrototypeKeys THEN "inherited"
  ELSE "undefined"

\* a default that is another stack
ResolveStackToVue(webStack) == IF webStack = "" THEN "vue" ELSE webStack

\* request.settings?.webStack || 'nextjs'
ResolveStack(webStack) == IF webStack = "" THEN "nextjs" ELSE webStack

SpecFields == {"name", "description", "stack", "pages", "components",
               "apiEndpoints", "features"}

NullSpec ==
  [t |-> "null", has |-> {}, name |-> "", description |-> "", stack |-> "",
   pages |-> <<>>, components |-> <<>>, apiEndpoints |-> <<>>, features |-> <<>>]

\* the specification a well-behaved backend describes
BackendSpec ==
  [t |-> "object", has |-> SpecFields, name |-> "Todo Web",
   description |-> "A todo web application", stack |-> "nextjs",
   pages |-> <<"Home", "Tasks">>, components |-> <<"TaskList">>,
   apiEndpoints |-> <<"/api/tasks">>, features |-> <<"auth", "crud">>]

\* a fallback that names the default stack whatever stack was given
DefaultSpecOfNextJS(prompt, stack) ==
  [t |-> "object", has |-> SpecFields, name |-> "WebApp",
   description |-> prompt, stack |-> "nextjs",
   pages |-> <<"Home", "About", "Contact">>,
   components |-> <<"Navbar", "Footer", "Button">>,
   apiEndpoints |-> <<>>, features |-> <<"responsive">>]

\* the specification substituted when parsing fails
DefaultSpec(prompt, stack) ==
  [t |-> "object", has |-> SpecFields, name |-> "WebApp",
   description |-> prompt, stack |-> stack,
   pages |-> <<"Home", "About", "Contact">>,
   components |-> <<"Navbar", "Footer", "Button">>,
   apiEndpoints |-> <<>>, features |-> <<"responsive">>]

\* a JSON object that has none of the specification's fields: {}
EmptySpec == [NullSpec EXCEPT !.t = "object"]

\* a JSON number; its property reads all yield undefined
NumberSpec == [NullSpec EXCEPT !.t = "number"]

\* a specification whose page list is the empty array
PagelessSpec ==
  [t |-> "object", has |-> SpecFields, name |-> "Landing",
   description |-> "A landing page", stack |-> "vue",
   pages |-> <<>>, components |-> <<"Navbar", "Footer">>,
   apiEndpoints |-> <<>>, features |-> <<"responsive">>]

\* A reply text is a sequence of chunks: SpecChunk, PagelessChunk and
\* EmptyObjectChunk are each the text of one JSON object, "null" and "42"
\* JSON literals, "prose" text without braces; << >> is the empty text.
SpecChunk == "{spec}"

PagelessChunk == "{pageless}"

EmptyObjectChunk == "{}"

ObjectChunks == {SpecChunk, PagelessChunk, EmptyObjectChunk}

WebReplies ==
  {<<SpecChunk>>, <<"prose">>, <<"null">>, <<"prose", SpecChunk, "prose">>}

WebAnswers == {[content |-> c, totalTokens |-> 0] : c \in WebReplies}

\* the replies explored when the web target alone is generated
AllWebReplies ==
  WebReplies \cup {<< >>, <<"42">>, <<EmptyObjectChunk>>, <<PagelessChunk>>,
                   <<"prose", EmptyObjectChunk>>,
                   <<"prose", SpecChunk, "prose", PagelessChunk, "prose">>}

AllWebAnswers == {[content |-> c, totalTokens |-> 0] : c \in AllWebReplies}

\* content.match(/\{[\s\S]*\}/): greedy, from the first '{' to the last '}'
MatchBraces(text) ==
  LET braces == {i \in DOMAIN text : text[i] \in ObjectChunks}
  IN  IF braces = {} THEN [matched |-> FALSE, text |-> <<>>]
      ELSE LET first == CHOOSE i \in braces : \A j \in braces : i <= j
               last  == CHOOSE i \in braces : \A j \in braces : j <= i
           IN  [matched |-> TRUE, text |-> SubSeq(text, first, last)]

\* JSON.parse of a reply text
WebJSONParse(text) ==
  CASE text = <<SpecChunk>>        -> [ok |-> TRUE, value |-> BackendSpec]
    [] text = <<PagelessChunk>>    -> [ok |-> TRUE, value |-> PagelessSpec]
    [] text = <<EmptyObjectChunk>> -> [ok |-> TRUE, value |-> EmptySpec]
    [] text = <<"null">>           -> [ok |-> TRUE, value |-> NullSpec]
    [] text = <<"42">>             -> [ok |-> TRUE, value |-> NumberSpec]
    [] OTHER                       -> [ok |-> FALSE, value |-> NullSpec]

\* generateSpec after the backend answered
generateSpec(prompt, stack, content) ==
  LET m      == MatchBraces(content)
      parsed == IF m.matched THEN WebJSONParse(m.text) ELSE WebJSONParse(content)
  IN  IF parsed.ok THEN parsed.value ELSE DefaultSpec(prompt, stack)

\* String.prototype.toLowerCase on the page names in use
ToLowerCase(str) ==
  CASE str = "Home"    -> "home"
    [] str = "About"   -> "about"
    [] str = "Contact" -> "contact"
    [] str = "Tasks"   -> "tasks"
    [] OTHER           -> str

\* spec.pages || ['Home'] and spec.components || ['Button']
PagesOf(spec) == IF "pages" \in spec.has THEN spec.pages ELSE <<"Home">>

ComponentsOf(spec) ==
  IF "components" \in spec.has THEN spec.components ELSE <<"Button">>

NameOf(spec) == IF "name" \in spec.has THEN spec.name ELSE "undefined"

PagePath(page) == <<"app/", ToLowerCase(page), "/page.tsx">>

ComponentPath(comp) == <<"components/", comp, ".tsx">>

generateNextJS(spec) ==
  [title |-> <<"# Next.js ", IF "name" \in spec.has THEN spec.name ELSE "WebApp">>,
   pages |-> [i \in DOMAIN PagesOf(spec) |-> PagePath(PagesOf(spec)[i])],
   components |-> [i \in DOMAIN ComponentsOf(spec) |->
                     ComponentPath(ComponentsOf(spec)[i])]]

generateNextJSConfig(spec) == [name |-> NameOf(spec), next |-> "^14"]

generateFastAPI(spec) ==
  [title |-> <<"# FastAPI ", IF "name" \in spec.has THEN spec.name ELSE "WebApp">>,
   endpoints |-> spec.apiEndpoints]

generateFastAPIConfig == [python_version |-> "3.11"]

generateReact(spec) ==
  [title |-> <<"# React Frontend for ", NameOf(spec)>>,
   pages |-> spec.pages, components |-> spec.components]

generateExpress(spec) ==
  [title |-> <<"# Express Backend for ", NameOf(spec)>>, api |-> spec.apiEndpoints]

generateVue(spec) ==
  [title |-> <<"# Vue 3 / Nuxt App for ", NameOf(spec)>>,
   pages |-> spec.pages, components |-> spec.components]

generateVueConfig == [name |-> "nuxt-app", nuxt |-> "^3"]

\* phase 2: dispatch on the stack; an unmatched stack leaves code = {}
generateCode(spec, stack) ==
  CASE stack = "nextjs" ->
         [frontend |-> generateNextJS(spec), config |-> generateNextJSConfig(spec)]
    [] stack = "fastapi" ->
         [backend |-> generateFastAPI(spec), config |-> generateFastAPIConfig]
    [] stack = "react-express" ->
         [frontend |-> generateReact(spec), backend |-> generateExpress(spec)]
    [] stack = "vue" ->
         [frontend |-> generateVue(spec), config |-> generateVueConfig]
    [] OTHER -> EmptyMap

Single(path) == <<path>>

\* a manifest that lists the pages and components for every stack
listFilesOfEveryStack(spec, stack) ==
  LET pages      == PagesOf(spec)
      components == ComponentsOf(spec)
      listed     == [i \in DOMAIN pages |-> PagePath(pages[i])]
                    \o [i \in DOMAIN components |-> ComponentPath(components[i])]
  IN  IF stack = "nextjs" \/ stack = "vue"
      THEN listed \o << Single("package.json"), Single("tailwind.config.js") >>
           \o (IF stack = "nextjs" THEN << Single("next.config.js") >> ELSE << >>)
      ELSE IF stack = "fastapi"
      THEN listed \o
           << Single("main.py"), Single("requirements.txt"), Single("models.py"),
              Single("schemas.py"), Single("crud.py"), Single("database.py") >>
      ELSE IF stack = "react-express"
      THEN listed \o
           << Single("client/package.json"), Single("client/src/App.tsx"),
              Single("server/package.json"), Single("server/index.js") >>
      ELSE << >>

\* phase 2: the file manifest
listFiles(spec, stack) ==
  LET pages      == PagesOf(spec)
      components == ComponentsOf(spec)
  IN  IF stack = "nextjs" \/ stack = "vue"
      THEN [i \in DOMAIN pages |-> PagePath(pages[i])]
           \o [i \in DOMAIN components |-> ComponentPath(components[i])]
           \o << Single("package.json"), Single("tailwind.config.js") >>
           \o (IF stack = "nextjs" THEN << Single("next.config.js") >> ELSE << >>)
      ELSE IF stack = "fastapi"
      THEN << Single("main.py"), Single("requirements.txt"), Single("models.py"),
              Single("schemas.py"), Single("crud.py"), Single("database.py") >>
      ELSE IF stack = "react-express"
      THEN << Single("client/package.json"), Single("client/src/App.tsx"),
              Single("server/package.json"), Single("server/index.js") >>
      ELSE << >>

\* JSON.stringify(result, null, 2) of WebGenerator.generate's result
WebResult(spec, stack) ==
  [kind |-> "web-json", specification |-> spec,
   code |-> generateCode(spec, stack), files |-> listFiles(spec, stack)]

NoWeb == [stack |-> "", spec |-> NullSpec]

(***************************************************************************)
(* One generate call.                                                      *)
(***************************************************************************)
Variants == {"v1", "v2"}

NoResult == [returned |-> FALSE]

\* a response whose model is rewritten to carry the requested targets
GenerationResponseNarrowed(model, codeMap, tokens, platforms) ==
  [returned |-> TRUE, app |-> [model EXCEPT !.platforms = platforms],
   code |-> codeMap,
   metadata |-> [provider |-> provider, model |-> "default",
                 tokensUsed |-> tokens, platforms |-> platforms]]

\* the GenerationResponse generate returns
GenerationResponse(model, codeMap, tokens, platforms) ==
  [returned |-> TRUE, app |-> model, code |-> codeMap,
   metadata |-> [provider |-> provider, model |-> "default",
                 tokensUsed |-> tokens, platforms |-> platforms]]

\* Object.values(tokensPerPlatform).reduce((a, b) => a + b, 0)
RECURSIVE SumValues(_, _)
SumValues(f, keys) ==
  IF keys = {} THEN 0
  ELSE LET k == CHOOSE x \in keys : TRUE
       IN  f[k] + SumValues(f, keys \ {k})

\* no validator and no adapter call is under way
NoReview == [pc |-> "none"]

NoAdapter == [pc |-> "none"]

\* the classes of src/src/lib/enhancements, not constructed
EnhancementVars == <<chat, domains, hooks, cli, analytics>>

NoInstance == [pc |-> "none"]

EnhancementsIdle ==
  /\ chat = NoInstance
  /\ domains = NoInstance
  /\ hooks = NoInstance
  /\ cli = NoInstance
  /\ analytics = NoInstance

\* the constructor: new CrossPlatformGenerator(provider, apiKey)
GeneratorInit ==
  /\ variant \in Variants
  /\ provider \in AIProvider
  /\ pc = "idle"
  /\ request = NoRequest
  /\ app = NullValue
  /\ usedDefault = FALSE
  /\ code = EmptyMap
  /\ tokensPerPlatform = EmptyMap
  /\ emitted = {}
  /\ calls = << >>
  /\ web = NoWeb
  /\ error = "none"
  /\ failedAt = "none"
  /\ result = NoResult
  /\ builds = 0

Init ==
  /\ GeneratorInit
  /\ review = NoReview
  /\ adapter = NoAdapter
  /\ EnhancementsIdle

\* an exception leaves generate: the promise rejects, nothing is returned
Throw(err, at) ==
  /\ pc' = "threw"
  /\ error' = err
  /\ failedAt' = at
  /\ result' = NoResult

\* generate is entered: startTime, platforms = request.platforms
Generate(req) ==
  /\ pc = "idle"
  /\ UNCHANGED <<builds, review, adapter, EnhancementVars>>
  /\ request' = req
  /\ pc' = "build"
  /\ UNCHANGED <<variant, provider, app, usedDefault, code, tokensPerPlatform,
                 emitted, calls, web, error, failedAt, result>>

\* callAI(prompt, systemPrompt) of generateAppDefinition and what follows it
BuildFromBackend(prompt, defaultDescription) ==
  \E outcome \in {"rejected", "answered"}, a \in BuildAnswers :
    LET to == callAI(variant, provider)
        f == Fetch(outcome, IF outcome = "rejected" THEN NoAnswer
                            ELSE AIResponse(variant, to, a))
        r == ParseAppDefinition(variant, defaultDescription, f.answer.content)
    IN  /\ outcome = "rejected" => a = CHOOSE x \in BuildAnswers : TRUE
        /\ calls' = calls \o BuildCalls(Call(to, "build", prompt, outcome,
                                             f.answer))
        /\ IF f.threw
           THEN /\ Throw("TransportError", "build")
                /\ UNCHANGED <<app, usedDefault>>
           ELSE IF r.threw
           THEN /\ Throw("SyntaxError", "build")
                /\ UNCHANGED <<app, usedDefault>>
           ELSE /\ app' = r.app
                /\ usedDefault' = r.usedDefault
                /\ pc' = "ios"
                /\ UNCHANGED <<error, failedAt, result>>

\* const appDefinition = await this.generateAppDefinition(prompt, template)
BuildModel ==
  /\ pc = "build"
  /\ builds' = builds + 1
  /\ UNCHANGED <<review, adapter, EnhancementVars>>
  /\ IF request.template # ""
     THEN IF variant = "v2"
          THEN /\ app' = generateFromTemplate_v2(request.template)
               /\ pc' = "ios"
               /\ UNCHANGED <<usedDefault, calls, error, failedAt, result>>
          ELSE LET t == generateFromTemplate_v1(request.template)
               IN  IF ~t.found
                   THEN /\ Throw("TemplateNotFound", "build")
                        /\ UNCHANGED <<app, usedDefault, calls>>
                   ELSE BuildFromBackend(t.prompt, request.prompt)
     ELSE BuildFromBackend(UserPrompt(request.prompt), request.prompt)
  /\ UNCHANGED <<variant, provider, request, code, tokensPerPlatform,
                 emitted, web>>

\* the step that follows the emitter of a target
NextStep(target) ==
  CASE target = "ios"          -> "android"
    [] target = "android"      -> "react-native"
    [] target = "react-native" -> "web"
    [] target = "web"          -> "finish"

\* v1: an emitter is one backend call; code[target] = response.content
EmitByBackend(target) ==
  \E outcome \in {"rejected", "answered"}, a \in EmitterAnswers :
    LET to == callAI(variant, provider)
        f == Fetch(outcome, IF outcome = "rejected" THEN NoAnswer
                            ELSE AIResponse(variant, to, a))
    IN  /\ outcome = "rejected" => a = CHOOSE x \in EmitterAnswers : TRUE
        /\ calls' = Append(calls, Call(to, target,
                                       EmitterPrompt_v1(target, app),
                                       outcome, f.answer))
        /\ IF f.threw
           THEN /\ Throw("TransportError", target)
                /\ UNCHANGED <<code, tokensPerPlatform, emitted>>
           ELSE /\ code' = Assign(code, target, AIText(f.answer.content))
                /\ tokensPerPlatform' =
                     Assign(tokensPerPlatform, target, f.answer.totalTokens)
                /\ emitted' = emitted \cup {target}
                /\ pc' = NextStep(target)
                /\ UNCHANGED <<error, failedAt, result>>

\* v2: ios, android and react-native are rendered locally
EmitLocally(target) ==
  LET r == LocalEmitter(target, app)
  IN  /\ IF r.threw
         THEN /\ Throw("TypeError", target)
              /\ UNCHANGED <<code, emitted>>
         ELSE /\ code' = Assign(code, target, r.content)
              /\ emitted' = emitted \cup {target}
              /\ pc' = NextStep(target)
              /\ UNCHANGED <<error, failedAt, result>>
      /\ UNCHANGED <<calls, tokensPerPlatform>>

\* if (platforms.includes(target)) { code[target] = await emitter(...) }
Emit(target) ==
  /\ pc = target
  /\ UNCHANGED <<builds, review, adapter, EnhancementVars>>
  /\ IF Includes(request.platforms, target)
     THEN IF variant = "v1" THEN EmitByBackend(target) ELSE EmitLocally(target)
     ELSE /\ pc' = NextStep(target)
          /\ UNCHANGED <<code, tokensPerPlatform, emitted, calls, error,
                         failedAt, result>>
  /\ UNCHANGED <<variant, provider, request, app, usedDefault, web>>

EmitIOS == Emit("ios")

EmitAndroid == Emit("android")

EmitReactNative == Emit("react-native")

\* the web branch of generate; in v2 it enters WebGenerator.generate, whose
\* first statement reads WEB_STACKS[stack].name
EmitWeb ==
  /\ pc = "web"
  /\ UNCHANGED <<builds, review, adapter, EnhancementVars>>
  /\ IF ~Includes(request.platforms, "web")
     THEN /\ pc' = "finish"
          /\ UNCHANGED <<code, tokensPerPlatform, emitted, calls, web, error,
                         failedAt, result>>
     ELSE IF variant = "v1"
     THEN /\ EmitByBackend("web")
          /\ UNCHANGED web
     ELSE LET stack == ResolveStack(request.webStack)
          IN  /\ IF StackEntry(stack) = "undefined"
                 THEN /\ Throw("TypeError", "web")
                      /\ UNCHANGED web
                 ELSE /\ web' = [stack |-> stack, spec |-> NullSpec]
                      /\ pc' = "web-spec"
                      /\ UNCHANGED <<error, failedAt, result>>
              /\ UNCHANGED <<code, tokensPerPlatform, emitted, calls>>
  /\ UNCHANGED <<variant, provider, request, app, usedDefault>>

\* phase 1: const spec = await this.generateSpec(prompt, stack)
\* a specification phase that asks the backend a second time
SpecCallsWithRetry(call) == <<call, call>>

\* the backend calls of one generateSpec: the single
\* await this.callAI(prompt, systemPrompt)
SpecCalls(call) == <<call>>

WebSpecifyWith(answers) ==
  /\ pc = "web-spec"
  /\ UNCHANGED <<builds, review, adapter, EnhancementVars>>
  /\ \E outcome \in {"rejected", "answered"}, a \in answers :
       LET f == Fetch(outcome, IF outcome = "rejected" THEN NoAnswer ELSE a)
       IN  /\ outcome = "rejected" => a = CHOOSE x \in answers : TRUE
           /\ calls' = calls \o SpecCalls(Call(WebGenerator_callAI(provider),
                                                "web",
                                                SpecPrompt(request.prompt,
                                                           web.stack),
                                                outcome, f.answer))
           /\ IF f.threw
              THEN /\ Throw("TransportError", "web")
                   /\ UNCHANGED web
              ELSE /\ web' = [web EXCEPT !.spec =
                                generateSpec(request.prompt, web.stack,
                                             f.answer.content)]
                   /\ pc' = "web-render"
                   /\ UNCHANGED <<error, failedAt, result>>
  /\ UNCHANGED <<variant, provider, request, app, usedDefault, code,
                 tokensPerPlatform, emitted>>

WebSpecify == WebSpecifyWith(WebAnswers)

WebSpecifyAll == WebSpecifyWith(AllWebAnswers)

\* phase 2, the manifest, and code.web = JSON.stringify(result, null, 2)
WebRender ==
  /\ pc = "web-render"
  /\ UNCHANGED <<builds, review, adapter, EnhancementVars>>
  /\ IF web.spec.t = "null"
     THEN /\ Throw("TypeError", "web")
          /\ UNCHANGED <<code, emitted>>
     ELSE /\ code' = Assign(code, "web", WebResult(web.spec, web.stack))
          /\ emitted' = emitted \cup {"web"}
          /\ pc' = "finish"
          /\ UNCHANGED <<error, failedAt, result>>
  /\ UNCHANGED <<variant, provider, request, app, usedDefault,
                 tokensPerPlatform, calls, web>>

\* return { app, code, metadata }
Finish ==
  /\ pc = "finish"
  /\ UNCHANGED <<builds, review, adapter, EnhancementVars>>
  /\ result' = GenerationResponse(
                 app, code,
                 IF variant = "v1"
                 THEN SumValues(tokensPerPlatform, DOMAIN tokensPerPlatform)
                 ELSE 0,
                 request.platforms)
  /\ pc' = "done"
  /\ UNCHANGED <<variant, provider, request, app, usedDefault, code,
                 tokensPerPlatform, emitted, calls, web, error, failedAt>>

Next ==
  \/ \E req \in GenerationRequest : Generate(req)
  \/ BuildModel
  \/ EmitIOS
  \/ EmitAndroid
  \/ EmitReactNative
  \/ EmitWeb
  \/ WebSpecify
  \/ WebRender
  \/ Finish

Spec == Init /\ [][Next]_vars

(***************************************************************************)
(* The web target alone: requests of the v2 generator for the web target,  *)
(* with every stack of WEB_STACKS and every reply text.                    *)
(***************************************************************************)
WebRequests ==
  {[prompt |-> p, platforms |-> <<"web">>, template |-> "", webStack |-> s] :
     p \in Prompts, s \in WEB_STACKS \cup {""}}

InitWeb == Init /\ variant = "v2"

NextWeb ==
  \/ \E req \in WebRequests : Generate(req)
  \/ BuildModel
  \/ EmitIOS
  \/ EmitAndroid
  \/ EmitReactNative
  \/ EmitWeb
  \/ WebSpecifyAll
  \/ WebRender
  \/ Finish

SpecWeb == InitWeb /\ [][NextWeb]_vars

(***************************************************************************)
(* StoreReviewValidator (src/src/lib/validation/store-review.ts).          *)
(***************************************************************************)
\* most screens and most screenshots of a validated app
MaxScreens == 1

MaxScreenshots == 2

\* the feature ids the checks look at
ReviewFeatures == {"google-login", "in-app-purchases", "restore-purchases"}

\* The apps handed to validate.  description: plain text, or text that
\* includes 'placeholder'; nameLength 0 is a missing or empty name;
\* screenshots 0 is a missing or empty list.
ReviewApps ==
  [screens : 0 .. MaxScreens, description : {"plain", "placeholder"},
   features : SUBSET ReviewFeatures, darkMode : BOOLEAN,
   privacyPolicyUrl : BOOLEAN, dataSafetyDeclared : BOOLEAN,
   nameLength : 0 .. 2, screenshots : 0 .. MaxScreenshots]

\* { type: 'error', ...CHECKS[check] }
Issue(type, check) == [type |-> type, check |-> check]

\* the entry pushed when the condition holds
PushIf(cond, issue) == IF cond THEN <<issue>> ELSE << >>

\* validateIOS: four error checks, then warnings.push(...) when the app has
\* no dark mode; validateIOS declares no warnings, so evaluating that
\* statement throws a ReferenceError
validateIOS(a) ==
  [threw  |-> ~a.darkMode,
   issues |->
     PushIf(a.screens = 0, Issue("error", "incompleteApp"))
     \o PushIf(a.description = "placeholder", Issue("error", "placeholderContent"))
     \o PushIf("google-login" \in a.features, Issue("error", "signInWithApple"))
     \o PushIf("in-app-purchases" \in a.features
               /\ "restore-purchases" \notin a.features,
               Issue("error", "restorePurchases"))]

\* validateAndroid: four error checks
validateAndroid(a) ==
  [threw  |-> FALSE,
   issues |->
     PushIf(~a.privacyPolicyUrl, Issue("error", "privacyPolicy"))
     \o PushIf(~a.dataSafetyDeclared, Issue("error", "dataSafety"))
     \o PushIf(a.nameLength > 0 /\ a.nameLength < 2, Issue("error", "appName"))
     \o PushIf(a.screenshots < 2, Issue("error", "screenshots"))]

\* list.filter(i => i.type === type)
FilterType(list, type) == SelectSeq(list, LAMBDA i : i.type = type)

\* Math.round of the non-negative quotient n / d
Round(n, d) == (2 * n + d) \div (2 * d)

\* a score that is the share of the issues
ScoreOfIssues(issues, warnings) ==
  LET totalChecks == issues + warnings
  IN  IF totalChecks > 0 THEN Round(issues * 100, totalChecks) ELSE 100

\* a score that any warning caps at 99
ScoreCapped(issues, warnings) ==
  LET totalChecks == issues + warnings
      share == IF totalChecks > 0
               THEN Round((totalChecks - issues) * 100, totalChecks) ELSE 100
  IN  IF warnings > 0 /\ share > 99 THEN 99 ELSE share

\* totalChecks > 0 ? Math.round(((totalChecks - issues.length) / totalChecks)
\* * 100) : 100, on the lengths of the two lists
Score(issues, warnings) ==
  LET totalChecks == issues + warnings
  IN  IF totalChecks > 0
      THEN Round((totalChecks - issues) * 100, totalChecks)
      ELSE 100

\* the ValidationResult of the two lists
ValidationResult(issues, warnings) ==
  [valid |-> Len(issues) = 0, score |-> Score(Len(issues), Len(warnings)),
   issues |-> issues, warnings |-> warnings]

\* a generator that is constructed and never used
GeneratorIdle == GeneratorInit /\ variant = "v2" /\ provider = "minimax"

GeneratorVars ==
  <<variant, provider, pc, request, app, usedDefault, code, tokensPerPlatform,
    emitted, calls, web, error, failedAt, result, builds>>

InitReview ==
  /\ EnhancementsIdle
  /\ GeneratorIdle
  /\ review = [pc |-> "idle"]
  /\ adapter = NoAdapter

\* validate(app, platform)
Validate(a, platform) ==
  /\ review.pc = "idle"
  /\ LET ios     == IF platform \in {"ios", "react-native"}
                    THEN validateIOS(a)
                    ELSE [threw |-> FALSE, issues |-> << >>]
         android == IF platform \in {"android", "react-native"}
                    THEN validateAndroid(a)
                    ELSE [threw |-> FALSE, issues |-> << >>]
         issues   == FilterType(ios.issues, "error")
                     \o FilterType(android.issues, "error")
         warnings == FilterType(ios.issues, "warning")
                     \o FilterType(android.issues, "warning")
     IN  review' =
           IF ios.threw
           THEN [pc |-> "threw", app |-> a, platform |-> platform,
                 error |-> "ReferenceError"]
           ELSE [pc |-> "returned", app |-> a, platform |-> platform,
                 result |-> ValidationResult(issues, warnings)]
  /\ UNCHANGED <<GeneratorVars, adapter, EnhancementVars>>

NextReview == \E a \in ReviewApps, platform \in Platform : Validate(a, platform)

SpecReview == InitReview /\ [][NextReview]_vars

(***************************************************************************)
(* The scoring rule of validate on its own: the statements that follow the *)
(* checks, applied to an issue list and a warning list of given lengths.   *)
(***************************************************************************)
\* longest issue list and longest warning list scored
MaxIssues == 8

MaxWarnings == 7

\* a list of n findings of one type
Findings(type, n) == [k \in 1 .. n |-> Issue(type, "check")]

InitScore ==
  /\ EnhancementsIdle
  /\ GeneratorIdle
  /\ \E i \in 0 .. MaxIssues, w \in 0 .. MaxWarnings :
       review = [pc |-> "checked", issues |-> Findings("error", i),
                 warnings |-> Findings("warning", w)]
  /\ adapter = NoAdapter

\* const totalChecks = ...; const score = ...; return { valid, score, ... }
ScoreResult ==
  /\ review.pc = "checked"
  /\ review' = [pc |-> "returned",
                result |-> ValidationResult(review.issues, review.warnings)]
  /\ UNCHANGED <<GeneratorVars, adapter, EnhancementVars>>

NextScore == ScoreResult

SpecScore == InitScore /\ [][NextScore]_vars

(***************************************************************************)
(* One call of a backend adapter (callClaude, callOpenAI, callGemini,      *)
(* callMiniMax, callZhipu of either generator): fetch, response.json(),    *)
(* and the AIResponse made of the parsed body.                             *)
(***************************************************************************)
\* most input tokens and most output tokens a provider reports
MaxTokens == 1

\* the usage object of a body: absent, or the provider's counts
BodyUsage ==
  {[present |-> FALSE, input |-> 0, output |-> 0]}
  \cup [present : {TRUE}, input : 0 .. MaxTokens, output : 0 .. MaxTokens]

\* The body of an HTTP response: a completion in the provider's JSON shape,
\* the provider's JSON error object, text that is no JSON (a plain-text or
\* HTML error page), or nothing.
ResponseBodies ==
  [kind : {"completion"}, text : {"generated source", ""}, usage : BodyUsage]
  \cup {[kind |-> k, text |-> "", usage |-> [present |-> FALSE, input |-> 0,
                                              output |-> 0]] :
          k \in {"json-error", "plain-text", "empty"}}

HttpStatuses == {"200", "429", "502"}

\* what fetch resolves to; "none" is a fetch that rejects
HttpResponses == [status : HttpStatuses, body : ResponseBodies]

\* await response.json(): rejects with a SyntaxError unless the body is JSON
ResponseJson(body) ==
  [threw |-> body.kind \in {"plain-text", "empty"}, data |-> body]

\* data.content?.[0]?.text || '' (and the like of the other providers)
ContentOf(data) == IF data.kind = "completion" THEN data.text ELSE ""

\* the usage field of the returned AIResponse: callClaude and callOpenAI of
\* the v1 generator compute totalTokens, ... || 0; the other adapters return
\* no usage
UsageOf(v, endpoint, data) ==
  IF v = "v1" /\ endpoint \in {"claude", "openai"}
  THEN [present |-> TRUE,
        totalTokens |-> IF data.usage.present
                        THEN data.usage.input + data.usage.output
                        ELSE 0]
  ELSE [present |-> FALSE, totalTokens |-> 0]

InitAdapter ==
  /\ EnhancementsIdle
  /\ GeneratorInit
  /\ review = NoReview
  /\ adapter = [pc |-> "idle"]

\* fetch rejected: the adapter has no try/catch, the rejection leaves it
AdapterNoResponse ==
  /\ adapter.pc = "idle"
  /\ adapter' = [pc |-> "threw", responded |-> FALSE, error |-> "TransportError"]
  /\ UNCHANGED <<GeneratorVars, review, EnhancementVars>>

\* fetch resolved with a response of any status; the adapter never reads
\* response.ok or response.status
AdapterResponse(response) ==
  /\ adapter.pc = "idle"
  /\ LET endpoint == callAI(variant, provider)
         parsed   == ResponseJson(response.body)
     IN  adapter' =
           IF parsed.threw
           THEN [pc |-> "threw", responded |-> TRUE, response |-> response,
                 error |-> "SyntaxError"]
           ELSE [pc |-> "returned", responded |-> TRUE, response |-> response,
                 content |-> ContentOf(parsed.data),
                 usage |-> UsageOf(variant, endpoint, parsed.data)]
  /\ UNCHANGED <<GeneratorVars, review, EnhancementVars>>

NextAdapter ==
  \/ AdapterNoResponse
  \/ \E response \in HttpResponses : AdapterResponse(response)

SpecAdapter == InitAdapter /\ [][NextAdapter]_vars

(***************************************************************************)
(* ChatAPI (src/src/lib/enhancements/cli.ts, lines 385-608).  Date.now()   *)
(* is a clock that the environment advances; a session object lives on     *)
(* the heap and the sessions Map leads from an id to one object.           *)
(***************************************************************************)
\* last reading of the clock, most session objects, most sendMessage calls
MaxClock == 2

MaxSessions == 3

MaxSends == 3

\* the messages a caller sends, one per intent
ChatMessages == {"create a todo app", "add a button", "help", "hello"}

\* detectIntent(message)
detectIntent(message) ==
  CASE message = "create a todo app" -> "generate"
    [] message = "add a button"      -> "modify"
    [] message = "help"              -> "help"
    [] OTHER                         -> "chat"

\* the ChatSession literal of createSession: id `session_${Date.now()}` and
\* the one system message
NewSession(now) == [id |-> now, messages |-> <<"system">>]

\* Map.prototype.set: a present key keeps its place and gets the new value
MapSet(map, key, value) ==
  [k \in DOMAIN map \cup {key} |-> IF k = key THEN value ELSE map[k]]

\* Map.prototype.delete
MapDelete(map, key) == [k \in DOMAIN map \ {key} |-> map[k]]

\* the keys of the Map in insertion order, after set and after delete
KeysAfterSet(order, key) ==
  IF \E i \in DOMAIN order : order[i] = key THEN order ELSE Append(order, key)

KeysAfterDelete(order, key) == SelectSeq(order, LAMBDA k : k # key)

\* session.messages.push(message)
PushMessage(objects, obj, role) ==
  [objects EXCEPT ![obj].messages = Append(@, role)]

\* removal of the k-th element of a sequence
RemoveAt(seq, k) ==
  [i \in 1 .. Len(seq) - 1 |-> IF i < k THEN seq[i] ELSE seq[i + 1]]

\* new ChatAPI(apiKey, provider): the constructor creates the default session
InitChat ==
  /\ GeneratorIdle
  /\ review = NoReview
  /\ adapter = NoAdapter
  /\ domains = NoInstance
  /\ hooks = NoInstance
  /\ cli = NoInstance
  /\ analytics = NoInstance
  /\ chat = [now |-> 0, objects |-> <<NewSession(0)>>,
             map |-> MapSet(<< >>, 0, 1), order |-> <<0>>, creates |-> 1,
             pending |-> << >>, sends |-> 0, last |-> "constructed"]

ChatFrame ==
  UNCHANGED <<GeneratorVars, review, adapter, domains, hooks, cli, analytics>>

\* the clock moves on by a millisecond
ChatTick ==
  /\ chat.now < MaxClock
  /\ chat' = [chat EXCEPT !.now = @ + 1]
  /\ ChatFrame

\* createSession(name)
CreateSession ==
  /\ Len(chat.objects) < MaxSessions
  /\ LET obj == Len(chat.objects) + 1
     IN  chat' = [chat EXCEPT
                    !.objects = Append(@, NewSession(chat.now)),
                    !.map     = MapSet(@, chat.now, obj),
                    !.order   = KeysAfterSet(@, chat.now),
                    !.creates = @ + 1,
                    !.last    = "created"]
  /\ ChatFrame

\* deleteSession(id) of a stored id
DeleteSession(id) ==
  /\ id \in DOMAIN chat.map
  /\ chat' = [chat EXCEPT !.map   = MapDelete(@, id),
                          !.order = KeysAfterDelete(@, id),
                          !.last  = "deleted"]
  /\ ChatFrame

\* a request without sessionId
NoSessionId == -1

\* sendMessage up to its first await: the session is looked up, the user
\* message is pushed, and for the help intent the assistant message too
SendMessage(sessionId, message) ==
  /\ chat.sends < MaxSends
  /\ LET found == IF sessionId = NoSessionId THEN chat.order # << >>
                  ELSE sessionId \in DOMAIN chat.map
         obj   == IF sessionId = NoSessionId THEN chat.map[chat.order[1]]
                  ELSE chat.map[sessionId]
         intent == detectIntent(message)
     IN  IF ~found
         THEN chat' = [chat EXCEPT !.sends = @ + 1,
                                   !.last = "Session not found"]
         ELSE IF intent = "help"
         THEN chat' = [chat EXCEPT
                         !.sends = @ + 1,
                         !.objects = PushMessage(PushMessage(@, obj, "user"),
                                                 obj, "assistant"),
                         !.last = "answered"]
         ELSE chat' = [chat EXCEPT
                         !.sends = @ + 1,
                         !.objects = PushMessage(@, obj, "user"),
                         !.pending = Append(@, [obj |-> obj, intent |-> intent]),
                         !.last = "awaiting"]
  /\ ChatFrame

\* the awaited call of a pending sendMessage settles: modifyApp always
\* resolves; generateApp and chat await generator.generate, which may
\* reject, and sendMessage has no try/catch
SendSettles(k, outcome) ==
  /\ k \in DOMAIN chat.pending
  /\ chat.pending[k].intent = "modify" => outcome = "resolved"
  /\ chat' = [chat EXCEPT
                 !.pending = RemoveAt(@, k),
                 !.objects = IF outcome = "resolved"
                             THEN PushMessage(@, chat.pending[k].obj, "assistant")
                             ELSE @,
                 !.last = IF outcome = "resolved" THEN "answered"
                          ELSE "generation failed"]
  /\ ChatFrame

NextChat ==
  \/ ChatTick
  \/ CreateSession
  \/ \E id \in 0 .. MaxClock : DeleteSession(id)
  \/ \E sessionId \in {NoSessionId} \cup (0 .. MaxClock), message \in ChatMessages :
       SendMessage(sessionId, message)
  \/ \E k \in 1 .. MaxSends, outcome \in {"resolved", "rejected"} :
       SendSettles(k, outcome)

SpecChat == InitChat /\ [][NextChat]_vars

(***************************************************************************)
(* CustomDomainManager (src/src/lib/enhancements/custom-domain.ts).        *)
(***************************************************************************)
DomainNames == {"a.example", "b.example"}

\* the CustomDomain literal of registerDomain
NewDomain(id, domain) ==
  [id |-> id, domain |-> domain, status |-> "pending", ssl |-> FALSE]

\* new CustomDomainManager()
InitDomains ==
  /\ GeneratorIdle
  /\ review = NoReview
  /\ adapter = NoAdapter
  /\ chat = NoInstance
  /\ hooks = NoInstance
  /\ cli = NoInstance
  /\ analytics = NoInstance
  /\ domains = [now |-> 0, map |-> << >>, last |-> "constructed"]

DomainsFrame ==
  UNCHANGED <<GeneratorVars, review, adapter, chat, hooks, cli, analytics>>

\* the clock moves on by a millisecond
DomainsTick ==
  /\ domains.now < MaxClock
  /\ domains' = [domains EXCEPT !.now = @ + 1]
  /\ DomainsFrame

\* registerDomain(appId, domain): id `domain_${Date.now()}`
registerDomain(domain) ==
  /\ domains' = [domains EXCEPT
                    !.map = MapSet(@, domains.now, NewDomain(domains.now, domain)),
                    !.last = "registered"]
  /\ DomainsFrame

\* verifyDomain(domainId)
verifyDomain(domainId) ==
  /\ IF domainId \notin DOMAIN domains.map
     THEN domains' = [domains EXCEPT !.last = "false"]
     ELSE domains' = [domains EXCEPT !.map[domainId].status = "verified",
                                     !.last = "true"]
  /\ DomainsFrame

\* enableSSL(domainId)
enableSSL(domainId) ==
  /\ IF domainId \notin DOMAIN domains.map
     THEN domains' = [domains EXCEPT !.last = "Domain not found"]
     ELSE domains' = [domains EXCEPT !.map[domainId].ssl = TRUE,
                                     !.map[domainId].status = "active",
                                     !.last = "sslUrl"]
  /\ DomainsFrame

NextDomains ==
  \/ DomainsTick
  \/ \E domain \in DomainNames : registerDomain(domain)
  \/ \E domainId \in 0 .. MaxClock : verifyDomain(domainId)
  \/ \E domainId \in 0 .. MaxClock : enableSSL(domainId)

SpecDomains == InitDomains /\ [][NextDomains]_vars

(***************************************************************************)
(* APIExtensionsManager (src/src/lib/enhancements/cli.ts, lines 771-835).  *)
(* One triggerWebhook call runs at a time; each turn of its loop is a      *)
(* step, since the loop awaits fetch, and createWebhook may run between    *)
(* two turns (the Map iterator sees entries added meanwhile).              *)
(***************************************************************************)
WebhookEvents == {"app.created", "payment.failed"}

\* the events lists of the WebhookConfig values registered
WebhookConfigs == [events : SUBSET WebhookEvents]

\* no triggerWebhook call has been made yet
NoRun ==
  [active |-> FALSE, returned |-> FALSE, event |-> "", pos |-> 1,
   subscribed |-> {}, attempted |-> {}, failed |-> {}, result |-> FALSE]

\* new APIExtensionsManager()
InitHooks ==
  /\ GeneratorIdle
  /\ review = NoReview
  /\ adapter = NoAdapter
  /\ chat = NoInstance
  /\ domains = NoInstance
  /\ cli = NoInstance
  /\ analytics = NoInstance
  /\ hooks = [now |-> 0, map |-> << >>, order |-> << >>, run |-> NoRun]

HooksFrame ==
  UNCHANGED <<GeneratorVars, review, adapter, chat, domains, cli, analytics>>

\* the clock moves on by a millisecond
HooksTick ==
  /\ hooks.now < MaxClock
  /\ hooks' = [hooks EXCEPT !.now = @ + 1]
  /\ HooksFrame

\* createWebhook(config): id `wh_${Date.now()}`
createWebhook(config) ==
  /\ hooks' = [hooks EXCEPT !.map = MapSet(@, hooks.now, config),
                            !.order = KeysAfterSet(@, hooks.now)]
  /\ HooksFrame

\* the ids of the webhooks subscribed to an event
Subscribed(map, event) == {id \in DOMAIN map : event \in map[id].events}

\* triggerWebhook(event, payload) is called
triggerWebhook(event) ==
  /\ ~hooks.run.active \/ hooks.run.returned
  /\ hooks' = [hooks EXCEPT !.run =
                  [active |-> TRUE, returned |-> FALSE, event |-> event,
                   pos |-> 1, subscribed |-> Subscribed(hooks.map, event),
                   attempted |-> {}, failed |-> {}, result |-> FALSE]]
  /\ HooksFrame

\* one turn of for (const [id, config] of this.webhooks), or the return
\* true that follows the loop; a fetch that rejects is caught and makes the
\* call return false at once
DeliverNext(outcome) ==
  /\ hooks.run.active
  /\ ~hooks.run.returned
  /\ IF hooks.run.pos > Len(hooks.order)
     THEN /\ outcome = "resolved"
          /\ hooks' = [hooks EXCEPT !.run.returned = TRUE, !.run.result = TRUE]
     ELSE LET id == hooks.order[hooks.run.pos]
          IN  IF hooks.run.event \notin hooks.map[id].events
              THEN /\ outcome = "resolved"
                   /\ hooks' = [hooks EXCEPT !.run.pos = @ + 1]
              ELSE IF outcome = "resolved"
              THEN hooks' = [hooks EXCEPT !.run.pos = @ + 1,
                                          !.run.attempted = @ \cup {id}]
              ELSE hooks' = [hooks EXCEPT !.run.attempted = @ \cup {id},
                                          !.run.failed = @ \cup {id},
                                          !.run.returned = TRUE,
                                          !.run.result = FALSE]
  /\ HooksFrame

NextHooks ==
  \/ HooksTick
  \/ \E config \in WebhookConfigs : createWebhook(config)
  \/ \E event \in WebhookEvents : triggerWebhook(event)
  \/ \E outcome \in {"resolved", "rejected"} : DeliverNext(outcome)

SpecHooks == InitHooks /\ [][NextHooks]_vars

(***************************************************************************)
(* AIChatCLI (src/src/lib/enhancements/cli.ts, lines 22-319).  A message   *)
(* is the set of the keywords it contains.  chat() runs up to its first    *)
(* await in one step and its continuation in another, so calls overlap.    *)
(***************************************************************************)
MaxChats == 3

CliMessages ==
  {{"create"}, {"create", "web"}, {"add"}, {"add", "create"}, {"show"},
   {"export"}, {"help"}, {}}

\* AIChatCLI.detectIntent: the first group of keywords with a hit wins
AIChatCLI_detectIntent(message) ==
  IF "create" \in message THEN "generate"
  ELSE IF "add" \in message THEN "modify"
  ELSE IF "show" \in message THEN "preview"
  ELSE IF "export" \in message THEN "export"
  ELSE IF "help" \in message THEN "help"
  ELSE "chat"

\* AIChatCLI.detectPlatforms: ios and android when no target is named
AIChatCLI_detectPlatforms(message) ==
  LET named == (IF "ios" \in message THEN <<"ios">> ELSE <<>>)
               \o (IF "web" \in message THEN <<"web">> ELSE <<>>)
  IN  IF Len(named) > 0 THEN named ELSE <<"ios", "android">>

\* a guard that lets every message through
HasAppAlways(currentApp) == TRUE

\* the truthiness test !this.session.currentApp of modifyApp, showPreview
\* and exportApp, negated
HasApp(currentApp) == currentApp.t # "null"

\* which handlers reach generator.generate
StartsGenerator(intent, currentApp) ==
  \/ intent = "generate"
  \/ intent = "modify" /\ HasApp(currentApp)

\* the platforms passed to generator.generate
PlatformsFor(intent, message, platform) ==
  IF intent = "generate" THEN AIChatCLI_detectPlatforms(message)
  ELSE IF platform # <<>> THEN platform
  ELSE <<"ios", "android">>

\* the models generate() of the v2 generator can resolve with: what
\* generateAppDefinition returns, provided no local emitter threw on it
GeneratorResults(platforms) ==
  {a \in {ParseAppDefinition("v2", "p", c).app : c \in BuildReplies} :
     \A i \in DOMAIN platforms :
       platforms[i] \in {"ios", "android", "react-native"} =>
         ~LocalEmitter(platforms[i], a).threw}

\* reading .name of null throws; .toLowerCase() of a missing name throws
ReadsName(a) == a.t # "null"

\* new AIChatCLI(apiKey, provider)
InitCli ==
  /\ GeneratorIdle
  /\ review = NoReview
  /\ adapter = NoAdapter
  /\ chat = NoInstance
  /\ domains = NoInstance
  /\ hooks = NoInstance
  /\ analytics = NoInstance
  /\ cli = [currentApp |-> NullValue, platform |-> <<>>, messages |-> <<>>,
            pending |-> <<>>, log |-> <<>>, returned |-> {}]

CliFrame ==
  UNCHANGED <<GeneratorVars, review, adapter, chat, domains, hooks, analytics>>

\* chat(userMessage) up to its first await: the user message is pushed, the
\* intent detected and the handler entered
CliChat(message) ==
  LET intent == AIChatCLI_detectIntent(message)
      invoked == StartsGenerator(intent, cli.currentApp)
      threw == /\ intent = "export"
               /\ HasApp(cli.currentApp)
               /\ "name" \notin cli.currentApp.has
  IN  /\ Len(cli.log) < MaxChats
      /\ cli' = [cli EXCEPT
                   !.messages = Append(@, "user"),
                   !.log = Append(@, [intent |-> intent,
                                      sawNull |-> cli.currentApp.t = "null",
                                      invoked |-> invoked]),
                   !.pending = Append(@,
                     [intent |-> intent, invoked |-> invoked, threw |-> threw,
                      platforms |-> PlatformsFor(intent, message,
                                                 cli.platform)])]
      /\ CliFrame

\* the continuation of the k-th waiting chat call: generator.generate has
\* settled, or the handler's own promise has
CliSettles(k, outcome, a) ==
  /\ k \in DOMAIN cli.pending
  /\ LET h == cli.pending[k]
         rest == RemoveAt(cli.pending, k)
     IN  IF ~h.invoked
         THEN /\ outcome = "resolved"
              /\ a = NullValue
              /\ cli' = [cli EXCEPT
                           !.pending = rest,
                           !.messages = IF h.threw THEN @
                                        ELSE Append(@, "assistant")]
         ELSE IF outcome = "rejected"
         THEN /\ a = NullValue
              /\ cli' = [cli EXCEPT !.pending = rest]
         ELSE /\ a \in GeneratorResults(h.platforms)
              /\ cli' = [cli EXCEPT
                           !.pending = rest,
                           !.currentApp = a,
                           !.platform = IF h.intent = "generate"
                                        THEN h.platforms ELSE @,
                           !.returned = @ \cup {a},
                           !.messages = IF ReadsName(a)
                                        THEN Append(@, "assistant") ELSE @]
  /\ CliFrame

NextCli ==
  \/ \E message \in CliMessages : CliChat(message)
  \/ \E k \in 1 .. MaxChats, outcome \in {"resolved", "rejected"},
        a \in {ParseAppDefinition("v2", "p", c).app : c \in BuildReplies} :
       CliSettles(k, outcome, a)

SpecCli == InitCli /\ [][NextCli]_vars

(***************************************************************************)
(* AnalyticsDashboard (src/src/lib/enhancements/analytics.ts, 25-114).     *)
(***************************************************************************)
MaxEvents == 3

MaxLimit == 3

\* getEvents(limit: number = 100)
DefaultLimit == 100

EventNames == {"app.generated", "payment.success"}

\* the timestamp a caller passes: 0 stands for a missing or zero one
GivenTimestamps == {0, 5}

\* Array.prototype.slice(start): a negative start counts from the end, and
\* -0 is 0
SliceFrom(list, start) ==
  LET from == IF start < 0
              THEN (IF Len(list) + start > 0 THEN Len(list) + start ELSE 0)
              ELSE (IF start < Len(list) THEN start ELSE Len(list))
  IN  SubSeq(list, from + 1, Len(list))

\* new AnalyticsDashboard()
InitAnalytics ==
  /\ GeneratorIdle
  /\ review = NoReview
  /\ adapter = NoAdapter
  /\ chat = NoInstance
  /\ domains = NoInstance
  /\ hooks = NoInstance
  /\ cli = NoInstance
  /\ analytics = [now |-> 1, events |-> <<>>,
                  got |-> [called |-> FALSE, limit |-> 0, result |-> <<>>]]

AnalyticsFrame ==
  UNCHANGED <<GeneratorVars, review, adapter, chat, domains, hooks, cli>>

\* the clock moves on by a millisecond
AnalyticsTick ==
  /\ analytics.now < MaxClock
  /\ analytics' = [analytics EXCEPT !.now = @ + 1]
  /\ AnalyticsFrame

\* track(event): timestamp: event.timestamp || Date.now()
track(event) ==
  /\ Len(analytics.events) < MaxEvents
  /\ analytics' = [analytics EXCEPT !.events =
                      Append(@, [event |-> event.event,
                                 timestamp |-> IF event.timestamp # 0
                                               THEN event.timestamp
                                               ELSE analytics.now])]
  /\ AnalyticsFrame

\* getEvents(limit): this.events.slice(-limit)
getEvents(limit) ==
  /\ analytics' = [analytics EXCEPT !.got =
                      [called |-> TRUE, limit |-> limit,
                       result |-> SliceFrom(analytics.events, -limit)]]
  /\ AnalyticsFrame

NextAnalytics ==
  \/ AnalyticsTick
  \/ \E name \in EventNames, t \in GivenTimestamps :
       track([event |-> name, timestamp |-> t])
  \/ \E limit \in (0 .. MaxLimit) \cup {DefaultLimit} : getEvents(limit)

SpecAnalytics == InitAnalytics /\ [][NextAnalytics]_vars

(***************************************************************************)
(* Properties of generate.                                                 *)
(***************************************************************************)
Requested == Range(request.platforms)

RecognisedRequest == request.platforms # << >> /\ Requested \subseteq Platform

HasUnknownTarget == \E i \in DOMAIN request.platforms : request.platforms[i] \notin Platform

EmitterCalls == {i \in DOMAIN calls : calls[i].by # "build"}

\* the model-build call was answered with text that JSON.parse rejects
BuildReplyUnparseable ==
  /\ calls # << >>
  /\ calls[1].by = "build"
  /\ calls[1].outcome = "answered"
  /\ ~JSONParse(calls[1].content).ok

\* C1: for a request with a non-empty, recognised target set, the returned
\* code map has a key for every requested target whose emitter succeeded and
\* no key for a target that was not requested (nor does the map under
\* construction ever hold such a key).
C1_CodeMapKeys ==
  RecognisedRequest =>
    /\ DOMAIN code \subseteq Requested
    /\ pc = "done" =>
         /\ result.returned
         /\ \A t \in Requested : t \in emitted => t \in DOMAIN result.code
         /\ DOMAIN result.code \subseteq Requested
         /\ emitted = Requested

C1_Witness ==
  /\ pc = "done"
  /\ RecognisedRequest
  /\ Len(request.platforms) >= 2
  /\ Cardinality(Platform \ Requested) >= 1
  /\ DOMAIN result.code = Requested

\* the targets generate handles before the given step
Before(step) ==
  CASE step = "ios"          -> {}
    [] step = "android"      -> {"ios"}
    [] step = "react-native" -> {"ios", "android"}
    [] step = "web"          -> {"ios", "android", "react-native"}
    [] OTHER                 -> {}

C3_MalformedBuildNeverRaises ==
  (BuildReplyUnparseable /\ RecognisedRequest) =>
    /\ ~(pc = "threw" /\ failedAt = "build")
    /\ usedDefault

\* C4: the default model substituted after a parse failure has no screens,
\* navigation type 'stack', the caller's prompt as description and the
\* request's target set.
C4_DefaultModelShape ==
  (usedDefault /\ RecognisedRequest) =>
    /\ app.screens = << >>
    /\ app.navigation = "stack"
    /\ app.description = request.prompt
    /\ Range(app.platforms) = Requested

\* C5: every Application Model that generate returns defines the six
\* required palette keys, has a valid navigation type and a target set
\* within the four supported targets.
C5_ReturnedModelInvariants ==
  (result.returned /\ RecognisedRequest) =>
    /\ ColorPalette \subseteq DOMAIN result.app.colors
    /\ result.app.navigation \in NavigationTypes
    /\ Range(result.app.platforms) \subseteq Platform

\* C6: with a templateId that is not in the catalog, generate fails with a
\* template-not-found error and returns nothing.
C6_UnknownTemplateFails ==
  (/\ RecognisedRequest
   /\ request.template # ""
   /\ ~getTemplateById(request.template).found
   /\ pc \notin {"idle", "build"}) =>
    /\ pc = "threw"
    /\ error = "TemplateNotFound"
    /\ ~result.returned

\* C7: with a templateId that is in the catalog, generate of the generator
\* that looks templates up (v1) does not fail with template-not-found: the
\* model is built by a backend call whose prompt is synthesized from the
\* template's name and feature list.
C7_KnownTemplateIsUsed ==
  (/\ variant = "v1"
   /\ RecognisedRequest
   /\ request.template # ""
   /\ getTemplateById(request.template).found
   /\ pc \notin {"idle", "build"}) =>
    /\ error # "TemplateNotFound"
    /\ calls # << >>
    /\ calls[1].by = "build"
    /\ calls[1].prompt = TemplatePrompt(getTemplateById(request.template).template)

\* C8 as stated: a request with a target identifier outside the four
\* supported targets fails with an error (it is never answered with a
\* Generation Result).
C8_UnknownTargetFails ==
  HasUnknownTarget => (pc # "done" /\ ~result.returned)

\* C8 as amended: an unrecognised target is silently ignored.  It gets no
\* code-map key and is not replaced by a default target, generate never
\* fails at it, and the returned code map has exactly the recognised
\* requested targets.
C8_UnknownTargetIsIgnored ==
  HasUnknownTarget =>
    /\ DOMAIN code \subseteq Requested \cap Platform
    /\ emitted \subseteq Requested \cap Platform
    /\ pc = "threw" => failedAt \in {"build"} \cup (Requested \cap Platform)
    /\ pc = "done" => /\ result.returned
                      /\ DOMAIN result.code = Requested \cap Platform

C8_Witness ==
  /\ pc = "done"
  /\ HasUnknownTarget
  /\ result.returned
  /\ DOMAIN result.code # {}

\* C9: requesting the web target of the generator that has web stacks (v2)
\* with a stack id that is not a known stack fails before any backend call
\* for the web target is issued, and never yields web output.
C9_UnknownStackFailsBeforeCall ==
  (/\ variant = "v2"
   /\ Includes(request.platforms, "web")
   /\ request.webStack # ""
   /\ request.webStack \notin WEB_STACKS) =>
    /\ \A i \in DOMAIN calls : calls[i].by # "web"
    /\ "web" \notin DOMAIN code
    /\ pc # "done"

\* C10: every backend call of one generate call goes to the backend the
\* generator was configured with, and the metadata names that backend.
C10_SingleBackend ==
  /\ \A i \in DOMAIN calls : calls[i].to = provider
  /\ result.returned => result.metadata.provider = provider

\* the total usage the backend calls of the log returned
RECURSIVE SumUsage(_)
SumUsage(log) ==
  IF log = << >> THEN 0
  ELSE Head(log).totalTokens + SumUsage(Tail(log))

BuildCallsOf(log) == {i \in DOMAIN log : log[i].by = "build"}

\* C11: the token total of the returned metadata is the sum of the
\* total-usage values returned by the model-build call and by every emitter
\* call of that generate; it is zero when no call returned usage.
C11_TokenTotalIsSumOfUsage ==
  (RecognisedRequest /\ result.returned) =>
    result.metadata.tokensUsed = SumUsage(calls)

\* C12: within one generate call the Application Model is built exactly
\* once, before any emitter runs or calls the backend, however many targets
\* are requested; when no template is given, exactly one backend call is
\* issued for the model, and it is the first call of the log.
C12_ModelBuiltOnceBeforeEmitters ==
  /\ pc \in {"idle", "build"} =>
       /\ builds = 0
       /\ emitted = {}
       /\ calls = << >>
       /\ DOMAIN code = {}
  /\ pc \notin {"idle", "build"} => builds = 1
  /\ \A i \in BuildCallsOf(calls) : i = 1
  /\ (pc \notin {"idle", "build"} /\ request.template = "") =>
       Cardinality(BuildCallsOf(calls)) = 1

C12_Witness ==
  /\ pc = "done"
  /\ variant = "v1"
  /\ request.template = ""
  /\ Len(request.platforms) = 3
  /\ Cardinality(EmitterCalls) = 3
  /\ builds = 1

\* C13: in the generator that has web stacks (v2), a request for the web
\* target without a stack selector always runs the stack nextjs: the
\* phase-1 prompt names it, and the web output is the one function of the
\* prompt and of the backend's reply that nextjs gives, so two generate
\* calls with the same input and the same replies yield the same
\* specification stack, scaffold text and file manifest.
C13_DefaultStackIsFixed ==
  (variant = "v2" /\ pc # "idle" /\ request.webStack = "") =>
    /\ pc \in {"web-spec", "web-render"} => web.stack = "nextjs"
    /\ \A i \in DOMAIN calls :
         calls[i].by = "web" =>
           calls[i].prompt = SpecPrompt(request.prompt, "nextjs")
    /\ "web" \in DOMAIN code =>
         \E i \in DOMAIN calls :
           /\ calls[i].by = "web"
           /\ code["web"] =
                WebResult(generateSpec(request.prompt, "nextjs",
                                       calls[i].content), "nextjs")

C13_Witness ==
  /\ pc = "done"
  /\ variant = "v2"
  /\ request.webStack = ""
  /\ "web" \in DOMAIN result.code
  /\ result.code["web"].specification.stack = "nextjs"
  /\ Len(result.code["web"].files) = 9

\* C20: for each of ios, android and react-native, the emitter that ran
\* issued exactly one backend call, whose prompt contains the serialized
\* Application Model, and the code-map entry of the target is the text that
\* call returned, unmodified.
C20_EmitterIsOneBackendCall ==
  \A t \in {"ios", "android", "react-native"} :
    t \in emitted =>
      \E i \in DOMAIN calls :
        /\ calls[i].by = t
        /\ \A j \in DOMAIN calls : calls[j].by = t => j = i
        /\ calls[i].prompt = EmitPrompt(t, app)
        /\ code[t] = AIText(calls[i].content)

(***************************************************************************)
(* Properties of the web target (SpecWeb).                                 *)
(***************************************************************************)
\* the answered phase-1 calls of the log
WebCalls == {i \in DOMAIN calls : calls[i].by = "web" /\ calls[i].outcome = "answered"}

\* a reply text without any JSON value in it: empty, or prose only
NoParseableStructure(text) == \A k \in DOMAIN text : text[k] = "prose"

\* a reply text that is one JSON value which is no specification object
ValidJsonButNoSpec(text) ==
  text \in {<<"null">>, <<"42">>, <<EmptyObjectChunk>>}

\* C14: when the phase-1 reply holds no parseable structure, the
\* specification phase does not raise and yields the minimal Web
\* Specification: the stack as given, exactly three pages, exactly three
\* components, no endpoint, and the single feature "responsive".
C14_UnparseableReplyGivesMinimalSpec ==
  \A i \in WebCalls :
    NoParseableStructure(calls[i].content) =>
      /\ pc \in {"web-render", "finish", "done"}
      /\ web.spec.t = "object"
      /\ web.spec.has = SpecFields
      /\ web.spec.stack = ResolveStack(request.webStack)
      /\ Len(web.spec.pages) = 3
      /\ Len(web.spec.components) = 3
      /\ web.spec.apiEndpoints = << >>
      /\ web.spec.features = <<"responsive">>
      /\ pc = "done" => result.code["web"].specification = web.spec

C14_Witness ==
  /\ pc = "done"
  /\ request.webStack = "fastapi"
  /\ \E i \in WebCalls : calls[i].content = <<"prose">>
  /\ result.code["web"].specification.stack = "fastapi"
  /\ Len(result.code["web"].specification.pages) = 3

\* the specifications that carry a page list and a component list
WebSpecifications ==
  {BackendSpec, PagelessSpec, DefaultSpec(request.prompt, web.stack)}

C16_ValidJsonNonSpecIsRecovered ==
  \A i \in WebCalls :
    ValidJsonButNoSpec(calls[i].content) =>
      /\ pc # "threw"
      /\ pc = "done" =>
           /\ "web" \in DOMAIN result.code
           /\ DOMAIN result.code["web"].code # {}
           /\ result.code["web"].files # << >>

(***************************************************************************)
(* Properties of the review validator (SpecReview, SpecScore).             *)
(***************************************************************************)
\* round(100 * w / (i + w)), half rounding up, in integer arithmetic
RoundedShare(w, total) ==
  CHOOSE r \in 0 .. 100 : 200 * w - total < 2 * total * r
                          /\ 2 * total * r <= 200 * w + total

\* C17: the score of a returned validation result is 100 when it has no
\* issue and no warning, and round(100 * warnings / (issues + warnings))
\* otherwise, issues and warnings being the lengths of the returned lists.
C17_ScoreFormula ==
  review.pc = "returned" =>
    LET i == Len(review.result.issues)
        w == Len(review.result.warnings)
    IN  review.result.score = IF i = 0 /\ w = 0 THEN 100
                              ELSE RoundedShare(w, i + w)

C17_Witness ==
  /\ review.pc = "returned"
  /\ Len(review.result.issues) = 1
  /\ Len(review.result.warnings) = 7
  /\ review.result.score = 88

NonOkWithTextBody ==
  /\ adapter.pc \in {"returned", "threw"}
  /\ adapter.responded
  /\ adapter.response.status # "200"
  /\ adapter.response.body.kind \in {"json-error", "plain-text"}

\* C19: an adapter call returns a result, and does not throw, when the
\* provider answers with a non-2xx response that carries a textual error
\* body; it fails only when the transport produces no response at all.
C19_AdapterFailsOnlyWithoutResponse ==
  /\ NonOkWithTextBody => adapter.pc = "returned"
  /\ adapter.pc = "threw" => ~adapter.responded

(***************************************************************************)
(* Further properties of the web target (SpecWeb).                         *)
(***************************************************************************)
\* every phase-1 call of the log, answered or not
WebCallsIssued == {i \in DOMAIN calls : calls[i].by = "web"}

\* C21: generating the web target issues exactly one backend call, the one
\* of phase 1; rendering the scaffold text, the config text and the manifest
\* issues none, and what is rendered is a function of the Web Specification
\* and the stack only.
C21_WebIssuesOneCall ==
  /\ pc \in {"web-render", "finish", "done"} =>
       (Includes(request.platforms, "web") => Cardinality(WebCallsIssued) = 1)
  /\ \A i \in WebCallsIssued : i = Len(calls)
  /\ "web" \in DOMAIN code =>
       /\ code["web"].specification = web.spec
       /\ code["web"].code = generateCode(web.spec, web.stack)
       /\ code["web"].files = listFiles(web.spec, web.stack)

C21_Witness ==
  /\ pc = "done"
  /\ web.stack = "react-express"
  /\ Cardinality(WebCallsIssued) = 1
  /\ Len(calls) = 2
  /\ Len(result.code["web"].files) = 4

\* a reply that wraps JSON objects in prose
WrapsObjectInProse(text) ==
  /\ \E k \in DOMAIN text : text[k] \in ObjectChunks
  /\ \E k \in DOMAIN text : text[k] = "prose"

\* the first {...} object of a reply text
FirstObject(text) ==
  LET first == CHOOSE k \in DOMAIN text :
                 /\ text[k] \in ObjectChunks
                 /\ \A j \in DOMAIN text : text[j] \in ObjectChunks => k <= j
  IN  <<text[first]>>

\* C22: when the phase-1 reply wraps a JSON object in prose, the
\* specification phase parses the first balanced {...} substring and returns
\* it as the Web Specification, also when further braces or a second object
\* occur later in the reply.
C22_FirstObjectIsParsed ==
  \A i \in WebCalls :
    WrapsObjectInProse(calls[i].content) =>
      web.spec = WebJSONParse(FirstObject(calls[i].content)).value

(***************************************************************************)
(* Further properties of generate (Spec).                                  *)
(***************************************************************************)
\* the model the builder produced, recomputed from the request and from the
\* backend's answer to the model-build call
BuiltModel ==
  IF BuildCallsOf(calls) # {}
  THEN ParseAppDefinition(variant, request.prompt, calls[1].content).app
  ELSE generateFromTemplate_v2(request.template)

\* the call an emitter issued
CallBy(target) == CHOOSE i \in DOMAIN calls : calls[i].by = target

\* C23: after the Application Model is built no step of generate changes
\* it: the model every emitter works from and the model of the Generation
\* Result are the model the builder produced.
C23_ModelNeverChanges ==
  pc \in {"ios", "android", "react-native", "web", "web-spec", "web-render",
          "finish", "done"} =>
    /\ app = BuiltModel
    /\ \A i \in EmitterCalls :
         calls[i].prompt.kind = "emit" => calls[i].prompt.app = BuiltModel
    /\ \A t \in emitted \ {"web"} :
         variant = "v2" => code[t] = LocalEmitter(t, BuiltModel).content
    /\ result.returned => result.app = BuiltModel

C23_Witness ==
  /\ pc = "done"
  /\ variant = "v1"
  /\ Len(request.platforms) = 2
  /\ Cardinality(EmitterCalls) = 2
  /\ result.app = BackendApp
  /\ result.app.platforms # request.platforms

\* the code-map entry of a target, told from the set of requested targets
\* and from the backend's answers, never from the position of the target
ExpectedCode(target) ==
  IF variant = "v1" THEN AIText(calls[CallBy(target)].content)
  ELSE IF target = "web"
  THEN WebResult(generateSpec(request.prompt, ResolveStack(request.webStack),
                              calls[CallBy("web")].content),
                 ResolveStack(request.webStack))
  ELSE LocalEmitter(target, app).content

\* the rank of a target in the fixed order of the platform blocks
Rank(target) ==
  CASE target = "build"        -> 0
    [] target = "ios"          -> 1
    [] target = "android"      -> 2
    [] target = "react-native" -> 3
    [] target = "web"          -> 4

\* C24: the code map generate returns does not depend on the order in which
\* the request lists its targets: it has one entry per requested target,
\* each determined by the set of targets and by the backend's answer to that
\* target's call, and the calls are issued in one fixed order.
C24_OrderOfTargetsIsIrrelevant ==
  /\ \A i, j \in DOMAIN calls : i < j => Rank(calls[i].by) < Rank(calls[j].by)
  /\ result.returned =>
       /\ DOMAIN result.code = Requested \cap Platform
       /\ \A t \in DOMAIN result.code : result.code[t] = ExpectedCode(t)

C24_Witness ==
  /\ pc = "done"
  /\ request.platforms = <<"web", "android", "ios">>
  /\ DOMAIN result.code = {"ios", "android", "web"}
  /\ Len(calls) >= 2

(***************************************************************************)
(* Properties of ChatAPI (SpecChat).                                       *)
(***************************************************************************)
\* after the system message: user, assistant, user, assistant, ...
Alternates(messages) ==
  \A k \in 2 .. Len(messages) :
    messages[k] = IF k % 2 = 0 THEN "user" ELSE "assistant"

\* C25: in every stored session, after any sequence of sendMessage calls,
\* failed and overlapping ones included, the messages that follow the
\* system message alternate strictly user, assistant, user, assistant.
C25_MessagesAlternate ==
  \A id \in DOMAIN chat.map : Alternates(chat.objects[chat.map[id]].messages)

\* C26: every createSession call adds a session: the number of stored
\* sessions grows by exactly one and every session stored before stays
\* retrievable by its id, also when two sessions are created within the
\* same millisecond.
C26_CreateSessionAddsOne ==
  [][chat'.creates = chat.creates + 1 =>
       /\ Cardinality(DOMAIN chat'.map) = Cardinality(DOMAIN chat.map) + 1
       /\ \A id \in DOMAIN chat.map :
            id \in DOMAIN chat'.map /\ chat'.map[id] = chat.map[id]]_vars

(***************************************************************************)
(* Properties of CustomDomainManager (SpecDomains).                        *)
(***************************************************************************)
\* C27: after any sequence of registerDomain, verifyDomain and enableSSL
\* calls, every stored domain with ssl = true has the status 'active'.
C27_SslImpliesActive ==
  \A id \in DOMAIN domains.map :
    domains.map[id].ssl => domains.map[id].status = "active"

(***************************************************************************)
(* Properties of APIExtensionsManager (SpecHooks).                         *)
(***************************************************************************)
\* C28: triggerWebhook(event, payload) attempts delivery to every
\* registered webhook subscribed to the event, whether or not an earlier
\* delivery failed, and returns true exactly when no attempted delivery
\* threw.
C28_EverySubscriberIsAttempted ==
  (hooks.run.active /\ hooks.run.returned) =>
    /\ \A id \in hooks.run.subscribed :
         hooks.run.event \in hooks.map[id].events => id \in hooks.run.attempted
    /\ hooks.run.result <=> hooks.run.failed = {}

(***************************************************************************)
(* Properties of AIChatCLI (SpecCli).                                      *)
(***************************************************************************)
\* C29: session.currentApp is non-null only after a generator call has
\* succeeded, and a modify, preview or export message handled while
\* currentApp is null never invokes the generator and leaves currentApp
\* null.
C29_CurrentAppOnlyFromGenerator ==
  /\ cli.currentApp.t # "null" => cli.currentApp \in cli.returned
  /\ \A i \in DOMAIN cli.log :
       (cli.log[i].intent \in {"modify", "preview", "export"}
          /\ cli.log[i].sawNull) => ~cli.log[i].invoked

\* a modify message was refused while no app existed, and a later generate
\* succeeded and set the app
C29_Witness ==
  /\ \E i \in DOMAIN cli.log :
       cli.log[i].intent = "modify" /\ cli.log[i].sawNull
  /\ cli.currentApp.t # "null"
  /\ cli.pending = <<>>

(***************************************************************************)
(* Properties of AnalyticsDashboard (SpecAnalytics).                       *)
(***************************************************************************)
\* the last n elements of a list, in order
LastEvents(list, n) ==
  SubSeq(list, (IF Len(list) > n THEN Len(list) - n ELSE 0) + 1, Len(list))

\* C30: getEvents(limit) returns at most limit events for every
\* limit >= 0, namely the most recently tracked ones in tracking order.
C30_GetEventsReturnsAtMostLimit ==
  analytics.got.called =>
    /\ Len(analytics.got.result) <= analytics.got.limit
    /\ \E n \in 0 .. Len(analytics.events) :
         /\ n >= Len(analytics.got.result)
         /\ analytics.got.result
              = LastEvents(SubSeq(analytics.events, 1, n), analytics.got.limit)

====
